---- MODULE Spec2Model ----
(***************************************************************************)
(* Model of draw_curve: the data-processing functions of                   *)
(* utils/data_processor.py (parse_input_data, smooth_curve,                *)
(* calculate_statistics) and the MainWindow state of gui/main_window.py.   *)
(*                                                                         *)
(* Text is a sequence of one-character strings.  A number is an exact      *)
(* rational [n, d] in lowest terms (d > 0); the decimal literals of the    *)
(* model's alphabet are short enough that ordering them as rationals is    *)
(* ordering them as doubles.  The extra spellings float() accepts          *)
(* (exponents, inf, nan, underscores) need characters outside the model's  *)
(* alphabet.                                                               *)
(***************************************************************************)
EXTENDS Integers, Sequences, FiniteSets, TLC

VARIABLES
    input_text,     \* parse_input_data: the argument
    x_list,         \* smooth_curve: the argument x_list
    y_list,         \* smooth_curve / calculate_statistics: the argument y_list
    method,         \* smooth_curve: the argument method
    num_points,     \* smooth_curve: the argument num_points
    outcome,        \* what the call did: pending, returned a value, raised an error
    data_input,     \* MainWindow.data_input (the text of the QTextEdit)
    method_combo,   \* MainWindow.method_combo (current text)
    x_data,         \* MainWindow.x_data
    y_data,         \* MainWindow.y_data
    smooth_x,       \* MainWindow.smooth_x
    smooth_y,       \* MainWindow.smooth_y
    export_enabled, \* MainWindow.export_btn.isEnabled()
    stats_label,    \* MainWindow.stats_label: the statistics shown
    message_box,    \* the last QMessageBox shown by a handler (None: none)
    last_action     \* the handler that ran last and the branch it took

vars == <<input_text, x_list, y_list, method, num_points, outcome,
          data_input, method_combo, x_data, y_data, smooth_x, smooth_y,
          export_enabled, stats_label, message_box, last_action>>

\* Python's None.
None == [none |-> TRUE]

-----------------------------------------------------------------------------
(* Bounds of the model.                                                    *)

\* Most lines of an input text handed to parse_input_data.
MaxLines == 3

\* Most lines of a text typed into the window's data box.
MaxGuiLines == 2

\* Most entries of a list handed to smooth_curve or calculate_statistics.
MaxLen == 4

-----------------------------------------------------------------------------
(* Numbers.                                                                *)

Abs(i) == IF i < 0 THEN -i ELSE i

RECURSIVE Gcd(_, _)
Gcd(a, b) == IF b = 0 THEN a ELSE Gcd(b, a % b)

\* The rational n/d (d > 0) in lowest terms.
Rat(n, d) ==
    LET g == Gcd(Abs(n), d)
    IN  [n |-> n \div g, d |-> d \div g]

RatInt(i) == [n |-> i, d |-> 1]

RatLess(a, b) == a.n * b.d < b.n * a.d

RatAdd(a, b) == Rat(a.n * b.d + b.n * a.d, a.d * b.d)

RECURSIVE Pow10(_)
Pow10(k) == IF k = 0 THEN 1 ELSE 10 * Pow10(k - 1)

-----------------------------------------------------------------------------
(* Python's str operations, on sequences of characters.                    *)

\* str.isspace() for the characters of the model.
IsSpace(c) == c \in {" ", "\t", "\n"}

\* str.lstrip()
RECURSIVE LStrip(_)
LStrip(s) ==
    IF s # <<>> /\ IsSpace(Head(s)) THEN LStrip(Tail(s)) ELSE s

\* str.rstrip()
RECURSIVE RStrip(_)
RStrip(s) ==
    IF s # <<>> /\ IsSpace(s[Len(s)]) THEN RStrip(SubSeq(s, 1, Len(s) - 1)) ELSE s

\* str.strip()
Strip(s) == RStrip(LStrip(s))

\* str.split(sep) for a one-character separator: cuts at every occurrence and
\* keeps empty pieces; a string without the separator is one piece.
RECURSIVE Split(_, _)
Split(s, sep) ==
    IF \A i \in 1..Len(s) : s[i] # sep
    THEN <<s>>
    ELSE LET i == CHOOSE j \in 1..Len(s) :
                      s[j] = sep /\ \A k \in 1..(j - 1) : s[k] # sep
         IN  <<SubSeq(s, 1, i - 1)>> \o Split(SubSeq(s, i + 1, Len(s)), sep)

\* str.startswith(c) for a one-character prefix.
StartsWith(s, c) == s # <<>> /\ Head(s) = c

DigitChars == <<"0", "1", "2", "3", "4", "5", "6", "7", "8", "9">>

IsDigit(c) == \E i \in 1..10 : DigitChars[i] = c

DigitVal(c) == (CHOOSE i \in 1..10 : DigitChars[i] = c) - 1

\* The value of a string of decimal digits (0 for the empty string).
RECURSIVE DigitsVal(_)
DigitsVal(s) ==
    IF s = <<>> THEN 0
    ELSE 10 * DigitsVal(SubSeq(s, 1, Len(s) - 1)) + DigitVal(s[Len(s)])

\* str(n) for an integer n >= 0.
RECURSIVE IntStr(_)
IntStr(n) ==
    IF n < 10 THEN <<DigitChars[n + 1]>>
    ELSE IntStr(n \div 10) \o <<DigitChars[(n % 10) + 1]>>

\* repr(s) for a str without quotes: quoted, tab escaped.
RECURSIVE ReprBody(_)
ReprBody(s) ==
    IF s = <<>> THEN <<>>
    ELSE (IF Head(s) = "\t" THEN <<"\\", "t">> ELSE <<Head(s)>>) \o ReprBody(Tail(s))

Repr(s) == <<"'">> \o ReprBody(s) \o <<"'">>

\* float(s): surrounding whitespace is ignored; then an optional sign, digits
\* with an optional fraction part ("1", "1.", "1.5", ".5").  Anything else is
\* ValueError("could not convert string to float: " + repr(s)).
ToFloat(s) ==
    LET t       == Strip(s)
        signed  == t # <<>> /\ Head(t) \in {"+", "-"}
        sign    == IF signed /\ Head(t) = "-" THEN -1 ELSE 1
        body    == IF signed THEN Tail(t) ELSE t
        pieces  == Split(body, ".")
        ip      == pieces[1]
        fp      == IF Len(pieces) = 2 THEN pieces[2] ELSE <<>>
        alldig  == \A i \in 1..Len(body) : IsDigit(body[i]) \/ body[i] = "."
        ok      == /\ alldig
                   /\ Len(pieces) <= 2
                   /\ Len(ip) + Len(fp) >= 1
    IN  IF ok
        THEN [ok |-> TRUE,
              val |-> Rat(sign * (DigitsVal(ip) * Pow10(Len(fp)) + DigitsVal(fp)),
                          Pow10(Len(fp)))]
        ELSE [ok |-> FALSE,
              msg |-> <<"c","o","u","l","d"," ","n","o","t"," ",
                        "c","o","n","v","e","r","t"," ",
                        "s","t","r","i","n","g"," ","t","o"," ",
                        "f","l","o","a","t",":"," ">> \o Repr(s)]

-----------------------------------------------------------------------------
(* utils/data_processor.py: parse_input_data.                              *)
(* A character outside ASCII is written "uXXXX", its code point.           *)

ValueError(msg) == [type |-> "ValueError", msg |-> msg]

Returned(value) == [status |-> "returned", value |-> value]

Raised(error) == [status |-> "raised", error |-> error]

Pending == [status |-> "pending"]

\* Separators with the comma tried before the space.
Separators_CommaFirst == <<",", " ", "\t", ";">>

\* The separators tried on a line, in the order they are tried.
Separators == <<" ", ",", "\t", ";">>

\* for sep in [' ', ',', '\t', ';']: parts = line.split(sep); stop at the first
\* separator that gives two parts or more.  Without one, parts is what the last
\* separator gave.
RECURSIVE TrySeparators(_, _)
TrySeparators(line, k) ==
    LET parts == Split(line, Separators[k])
    IN  IF Len(parts) >= 2 \/ k = Len(Separators)
        THEN parts
        ELSE TrySeparators(line, k + 1)

\* f"line {line_num} format error: {line}"
FormatErrorMsg(line_num, line) ==
    <<"u7b2c">> \o IntStr(line_num)
        \o <<"u884c", "u683c", "u5f0f", "u9519", "u8bef", ":", " ">> \o line

\* f"line {line_num} parse error: {str(e)}"
ParseErrorMsg(line_num, inner) ==
    <<"u7b2c">> \o IntStr(line_num)
        \o <<"u884c", "u89e3", "u6790", "u9519", "u8bef", ":", " ">> \o inner

\* "at least 2 data points are needed to draw a curve"
InsufficientDataMsg ==
    <<"u81f3", "u5c11", "u9700", "u8981", "2", "u7ec4", "u6570", "u636e", "u70b9",
      "u624d", "u80fd", "u7ed8", "u5236", "u66f2", "u7ebf">>

\* lines = input_text.strip().split('\n')
TextLines(text) == Split(Strip(text), "\n")

\* The body of the for loop for one line that is neither blank nor a comment:
\* the point it appends, or the ValueError the except clause re-raises.
ParseLine(line_num, line) ==
    LET parts == TrySeparators(line, 1)
    IN  IF Len(parts) < 2
        THEN Raised(ValueError(ParseErrorMsg(line_num, FormatErrorMsg(line_num, line))))
        ELSE LET fx == ToFloat(parts[1])
             IN  IF ~fx.ok
                 THEN Raised(ValueError(ParseErrorMsg(line_num, fx.msg)))
                 ELSE LET fy == ToFloat(parts[2])
                      IN  IF ~fy.ok
                          THEN Raised(ValueError(ParseErrorMsg(line_num, fy.msg)))
                          ELSE Returned(<<fx.val, fy.val>>)

\* for line_num, line in enumerate(lines, 1): from line i on, with the points
\* appended so far.  Returns the points of all lines, or the first error.
RECURSIVE ParseLoop(_, _, _)
ParseLoop(lines, i, points) ==
    IF i > Len(lines)
    THEN Returned(points)
    ELSE LET line == Strip(lines[i])
         IN  IF line = <<>> \/ StartsWith(line, "#")
             THEN ParseLoop(lines, i + 1, points)
             ELSE LET r == ParseLine(i, line)
                  IN  IF r.status = "raised"
                      THEN r
                      ELSE ParseLoop(lines, i + 1, Append(points, r.value))

\* all(x_list[i] < x_list[i+1] for i in range(len(x_list)-1))
StrictlyIncreasing(xs) ==
    \A i \in 1..(Len(xs) - 1) : RatLess(xs[i], xs[i + 1])

\* InsertByKey that puts p in front of the pairs of equal key: a sort that is
\* not stable.
InsertByKey_BeforeEqual(sorted, p) ==
    LET notless == {i \in 1..Len(sorted) : ~RatLess(sorted[i][1], p[1])}
        at      == IF notless = {} THEN Len(sorted) + 1
                   ELSE CHOOSE i \in notless : \A j \in notless : i <= j
    IN  SubSeq(sorted, 1, at - 1) \o <<p>> \o SubSeq(sorted, at, Len(sorted))

\* One step of a stable sort: p, which came after every pair of `sorted` in the
\* input, goes behind every pair whose key is not greater than its own.
InsertByKey(sorted, p) ==
    LET greater == {i \in 1..Len(sorted) : RatLess(p[1], sorted[i][1])}
        at      == IF greater = {} THEN Len(sorted) + 1
                   ELSE CHOOSE i \in greater : \A j \in greater : i <= j
    IN  SubSeq(sorted, 1, at - 1) \o <<p>> \o SubSeq(sorted, at, Len(sorted))

\* sorted(zip(x_list, y_list), key=lambda p: p[0]): sorted() is stable and
\* compares the keys only.
RECURSIVE SortedPairs(_)
SortedPairs(pairs) ==
    IF pairs = <<>> THEN <<>>
    ELSE InsertByKey(SortedPairs(SubSeq(pairs, 1, Len(pairs) - 1)), pairs[Len(pairs)])

Xs(pairs) == [i \in 1..Len(pairs) |-> pairs[i][1]]

Ys(pairs) == [i \in 1..Len(pairs) |-> pairs[i][2]]

Zip(xs, ys) == [i \in 1..Len(xs) |-> <<xs[i], ys[i]>>]

\* The last block of parse_input_data: the points are sorted by x unless the
\* x values are strictly increasing already.
Normalize(pairs) ==
    IF ~StrictlyIncreasing(Xs(pairs)) THEN SortedPairs(pairs) ELSE pairs

\* parse_input_data without the check for fewer than 2 points.
ParseInputData_NoMinimum(text) ==
    LET r == ParseLoop(TextLines(text), 1, <<>>)
    IN  IF r.status = "raised" THEN r
        ELSE LET pairs == Normalize(r.value)
             IN  Returned(<<Xs(pairs), Ys(pairs)>>)

\* parse_input_data(input_text): Returned(<<x_list, y_list>>) or Raised(error).
ParseInputData(text) ==
    LET r == ParseLoop(TextLines(text), 1, <<>>)
    IN  IF r.status = "raised" THEN r
        ELSE IF Len(r.value) < 2
        THEN Raised(ValueError(InsufficientDataMsg))
        ELSE LET pairs == Normalize(r.value)
             IN  Returned(<<Xs(pairs), Ys(pairs)>>)

-----------------------------------------------------------------------------
(* Input texts of the parser.                                              *)

\* The lines the input texts are made of: blank, comment, one line for each
\* separator, repeated and out-of-order x values, surrounding whitespace,
\* extra tokens, a space and a comma in one line, malformed numbers, a single
\* token.
LinePool ==
    { <<>>,
      <<" ">>,
      <<"#", "1">>,
      <<"1", " ", "2">>,
      <<"2", ",", "1">>,
      <<"1", "\t", "3">>,
      <<"3", ";", "1">>,
      <<"\t", "2", " ", "3", " ">>,
      <<"0", " ", "4", " ", ",", "a">>,
      <<"1", ",", "\t", "5">>,
      <<"-", "1", ".", "5", " ", "2">>,
      <<"a", " ", "1">>,
      <<"1", " ", " ", "2">>,
      <<"1", ",", " ", "2">>,
      <<"7">> }

\* '\n'.join(lines)
RECURSIVE JoinLines(_)
JoinLines(lines) ==
    IF lines = <<>> THEN <<>>
    ELSE IF Len(lines) = 1 THEN lines[1]
    ELSE lines[1] \o <<"\n">> \o JoinLines(Tail(lines))

TextsOf(pool, maxLines) ==
    {JoinLines(ls) : ls \in UNION {[1..n -> pool] : n \in 0..maxLines}}

Texts == TextsOf(LinePool, MaxLines)

-----------------------------------------------------------------------------
(* The calls of parse_input_data.                                          *)

guiVars == <<data_input, method_combo, x_data, y_data, smooth_x, smooth_y,
             export_enabled, stats_label, message_box>>

callVars == <<input_text, x_list, y_list, method, num_points, outcome>>

\* The window without init_ui's export_btn.setEnabled(False).
GuiInit_ExportEnabled ==
    /\ data_input = <<>>
    /\ method_combo = "cubic"
    /\ x_data = <<>>
    /\ y_data = <<>>
    /\ smooth_x = None
    /\ smooth_y = None
    /\ export_enabled = TRUE
    /\ stats_label = None
    /\ message_box = None

\* The window before any handler has run: MainWindow.__init__ and init_ui.
GuiInit ==
    /\ data_input = <<>>
    /\ method_combo = "cubic"
    /\ x_data = <<>>
    /\ y_data = <<>>
    /\ smooth_x = None
    /\ smooth_y = None
    /\ export_enabled = FALSE
    /\ stats_label = None
    /\ message_box = None

InitParse ==
    /\ input_text \in Texts
    /\ x_list = <<>>
    /\ y_list = <<>>
    /\ method = "cubic"
    /\ num_points = 1000
    /\ outcome = Pending
    /\ last_action = [name |-> "none"]
    /\ GuiInit

CallParseInputData ==
    /\ outcome = Pending
    /\ outcome' = ParseInputData(input_text)
    /\ last_action' = [name |-> "parse_input_data"]
    /\ UNCHANGED <<input_text, x_list, y_list, method, num_points>>
    /\ UNCHANGED guiVars

NextParse == CallParseInputData

SpecParse == InitParse /\ [][NextParse]_vars

-----------------------------------------------------------------------------
(* What the claims about parse_input_data speak of, stated on the input    *)
(* text as supplied.                                                       *)

\* The lines of the text as supplied, numbered from 1.
SuppliedLines(text) == Split(text, "\n")

\* The numbers of the supplied lines that are neither blank nor comments.
DataLineNums(text) ==
    {i \in 1..Len(SuppliedLines(text)) :
        LET line == Strip(SuppliedLines(text)[i])
        IN  line # <<>> /\ Head(line) # "#"}

Occurs(line, c) == \E i \in 1..Len(line) : line[i] = c

FirstIndex(line, c) == CHOOSE i \in 1..Len(line) :
                           line[i] = c /\ \A j \in 1..(i - 1) : line[j] # c

\* The separator a line is split on: the first of space, comma, tab,
\* semicolon that occurs in it.
SeparatorOf(line) ==
    IF Occurs(line, " ") THEN " "
    ELSE IF Occurs(line, ",") THEN ","
    ELSE IF Occurs(line, "\t") THEN "\t"
    ELSE ";"

\* The text before the first occurrence of c.
Before(line, c) ==
    IF Occurs(line, c) THEN SubSeq(line, 1, FirstIndex(line, c) - 1) ELSE line

\* The text after the first occurrence of c.
After(line, c) == SubSeq(line, FirstIndex(line, c) + 1, Len(line))

\* A line gives a point when it holds a separator and the text before its
\* first occurrence and the text between its first and second occurrence are
\* numbers.
GivesPoint(line) ==
    LET sep == SeparatorOf(line)
    IN  /\ Occurs(line, sep)
        /\ ToFloat(Before(line, sep)).ok
        /\ ToFloat(Before(After(line, sep), sep)).ok

PointOf(line) ==
    LET sep == SeparatorOf(line)
    IN  <<ToFloat(Before(line, sep)).val, ToFloat(Before(After(line, sep), sep)).val>>

\* The numbers of the supplied data lines that give no point.
BadLineNums(text) ==
    {i \in DataLineNums(text) : ~GivesPoint(Strip(SuppliedLines(text)[i]))}

Min(S) == CHOOSE i \in S : \A j \in S : i <= j

\* The i-th smallest member of a set of numbers.
RECURSIVE Nth(_, _)
Nth(S, i) == IF i = 1 THEN Min(S) ELSE Nth(S \ {Min(S)}, i - 1)

\* The points of the supplied data lines, in line order.
SuppliedPoints(text) ==
    [k \in 1..Cardinality(DataLineNums(text)) |->
        PointOf(Strip(SuppliedLines(text)[Nth(DataLineNums(text), k)]))]

Count(seq, p) == Cardinality({i \in 1..Len(seq) : seq[i] = p})

Range(seq) == {seq[i] : i \in 1..Len(seq)}

IsPermutation(a, b) ==
    /\ Len(a) = Len(b)
    /\ \A p \in Range(a) \cup Range(b) : Count(a, p) = Count(b, p)

\* s occurs in msg as a run of consecutive characters.
Contains(msg, s) ==
    \E i \in 1..(Len(msg) - Len(s) + 1) : SubSeq(msg, i, i + Len(s) - 1) = s

\* The message begins "line <n> ...": the number stands between the first
\* character of the message and the character that follows the number.
NamesLine(msg, n) ==
    LET head == <<"u7b2c">> \o IntStr(n) \o <<"u884c">>
    IN  Len(msg) >= Len(head) /\ SubSeq(msg, 1, Len(head)) = head

ParseDone == last_action.name = "parse_input_data"

ReturnedPairs == Zip(outcome.value[1], outcome.value[2])

\* C2: every PointSeries parse_input_data returns has a strictly increasing x
\* sequence, also when two lines carry the same x value.
C2_ReturnedXStrictlyIncreasing ==
    (ParseDone /\ outcome.status = "returned")
        => StrictlyIncreasing(outcome.value[1])

\* C3: the returned pairs are a permutation of the pairs of the data lines, x
\* is non-decreasing, pairs with equal x keep their line order, and pairs whose
\* x values were strictly increasing already come back in input order.
C3_StableSortedPermutation ==
    (ParseDone /\ outcome.status = "returned") =>
        LET given == SuppliedPoints(input_text)
            got   == ReturnedPairs
        IN  /\ Len(outcome.value[1]) = Len(outcome.value[2])
            /\ IsPermutation(got, given)
            /\ \A i \in 1..(Len(got) - 1) : ~RatLess(got[i + 1][1], got[i][1])
            /\ \A v \in Range(Xs(given)) :
                   SelectSeq(got, LAMBDA p : p[1] = v)
                       = SelectSeq(given, LAMBDA p : p[1] = v)
            /\ StrictlyIncreasing(Xs(given)) => got = given

\* C3 witness: a returned series that had to be sorted, with two neighbours of
\* equal x whose y values stand in falling order (their line order).
C3_Witness ==
    /\ ParseDone
    /\ outcome.status = "returned"
    /\ ReturnedPairs # SuppliedPoints(input_text)
    /\ \E i \in 1..(Len(ReturnedPairs) - 1) :
           /\ ReturnedPairs[i][1] = ReturnedPairs[i + 1][1]
           /\ RatLess(ReturnedPairs[i + 1][2], ReturnedPairs[i][2])

\* C4: when a data line cannot be parsed, parse_input_data fails with an error
\* whose message names the 1-based number of that line in the text as supplied
\* and contains the text of the line.
C4_ErrorNamesSuppliedLine ==
    (ParseDone /\ BadLineNums(input_text) # {}) =>
        LET n == Min(BadLineNums(input_text))
        IN  /\ outcome.status = "raised"
            /\ NamesLine(outcome.error.msg, n)
            /\ Contains(outcome.error.msg, Strip(SuppliedLines(input_text)[n]))

\* C6: parse_input_data fails with the insufficient-data error whenever every
\* data line parses and fewer than 2 points result, and it never returns a
\* series of fewer than 2 points.
C6_InsufficientData ==
    ParseDone =>
        /\ (BadLineNums(input_text) = {} /\ Cardinality(DataLineNums(input_text)) < 2)
               => outcome = Raised(ValueError(InsufficientDataMsg))
        /\ outcome.status = "returned"
               => Len(outcome.value[1]) >= 2 /\ Len(outcome.value[2]) >= 2

\* C6 witness: a text with exactly one data line, which parses, was refused.
C6_Witness ==
    /\ ParseDone
    /\ Cardinality(DataLineNums(input_text)) = 1
    /\ BadLineNums(input_text) = {}
    /\ outcome = Raised(ValueError(InsufficientDataMsg))

\* C7: each data line is split on the first of space, comma, tab, semicolon
\* that yields two tokens; x and y are the first two tokens of that split and
\* further tokens are ignored: the call returns exactly when every data line
\* gives a point that way (and there are two or more), and then returns those
\* points.
C7_SeparatorPriority ==
    ParseDone =>
        /\ outcome.status = "returned"
               <=> /\ BadLineNums(input_text) = {}
                   /\ Cardinality(DataLineNums(input_text)) >= 2
        /\ outcome.status = "returned"
               => IsPermutation(ReturnedPairs, SuppliedPoints(input_text))

\* C7 witness: a returned series one of whose lines holds a space and a comma
\* and more than two tokens.
C7_Witness ==
    /\ ParseDone
    /\ outcome.status = "returned"
    /\ \E i \in DataLineNums(input_text) :
           LET line == Strip(SuppliedLines(input_text)[i])
           IN  /\ Occurs(line, " ")
               /\ Occurs(line, ",")
               /\ Len(Split(line, " ")) > 2

-----------------------------------------------------------------------------
(* utils/data_processor.py: smooth_curve.                                  *)
(* scipy's interpolators are modelled by what decides the control flow:    *)
(* whether building and evaluating one raises.  The values they compute    *)
(* are kept as terms: which interpolator, of which points, at which        *)
(* abscissae.  The text of an error raised by a library is one string.     *)

SupportedMethods == {"linear", "quadratic", "cubic", "akima"}

\* "not enough data points"
InsufficientPointsMsg == <<"u6570", "u636e", "u70b9", "u4e0d", "u8db3">>

\* f"unsupported interpolation method: {method}"
UnsupportedMethodMsg(m) ==
    <<"u4e0d", "u652f", "u6301", "u7684", "u63d2", "u503c", "u65b9", "u6cd5", ":", " ">>
        \o <<m>>

\* The length check of smooth_curve letting a single point through.
TooFewPoints_OnlyEmpty(x) == Len(x) < 1

\* if len(x_list) < 2
TooFewPoints(x) == Len(x) < 2

\* min(x_list) and max(x_list) of a list that is not empty.
MinOf(x) == CHOOSE v \in Range(x) : \A w \in Range(x) : ~RatLess(w, v)

MaxOf(x) == CHOOSE v \in Range(x) : \A w \in Range(x) : ~RatLess(v, w)

\* np.linspace(start, stop, num): num evenly spaced samples from start to
\* stop, kept as the three numbers that determine them; a negative num is a
\* ValueError.
Linspace(start, stop, num) ==
    IF num < 0
    THEN Raised(ValueError(<<"Number of samples must be non-negative.">>))
    ELSE Returned([start |-> start, stop |-> stop, num |-> num])

HasDuplicates(x) == \E i, j \in 1..Len(x) : i # j /\ x[i] = x[j]

\* interp1d(x, y, kind=kind)(at) raises when x and y differ in length, when
\* there are fewer points than the kind needs (linear 1, quadratic 3, cubic 4)
\* and, for the spline kinds, when an x value repeats.  interp1d sorts x
\* itself.
Interp1dRaises(kind, x, y) ==
    LET needs == IF kind = "linear" THEN 1
                 ELSE IF kind = "quadratic" THEN 3 ELSE 4
    IN  \/ Len(x) # Len(y)
        \/ Len(x) < needs
        \/ kind # "linear" /\ HasDuplicates(x)

\* Akima1DInterpolator(x, y)(at) does not sort x: it raises when x and y
\* differ in length and when x decreases somewhere; whether it raises on a
\* repeated x value depends on the scipy version.
AkimaRaises(x, y) ==
    IF Len(x) # Len(y) \/ \E i \in 1..(Len(x) - 1) : RatLess(x[i + 1], x[i])
    THEN {TRUE}
    ELSE IF HasDuplicates(x) THEN BOOLEAN ELSE {FALSE}

\* Whether building and evaluating the interpolator of a supported method
\* raises: the outcomes the library can produce.
LibraryRaises(m, x, y) ==
    IF m = "akima" THEN AkimaRaises(x, y) ELSE {Interp1dRaises(m, x, y)}

\* interp_func(smooth_x) of an interpolator that did not raise.
Interpolated(kind, x, y, at) == [kind |-> kind, x |-> x, y |-> y, at |-> at]

\* An except clause that hands the error on instead of interpolating.
Fallback_Reraise(x, y, at) ==
    [outcome |-> Raised(ValueError(<<"raised by scipy">>)), fallback |-> FALSE]

\* The except clause: linear interpolation of the same points at the same
\* abscissae; an error it raises leaves smooth_curve.
Fallback(x, y, at) ==
    IF Interp1dRaises("linear", x, y)
    THEN [outcome |-> Raised(ValueError(<<"x and y arrays must be equal in length along interpolation axis.">>)),
          fallback |-> TRUE]
    ELSE [outcome |-> Returned(<<at, Interpolated("linear", x, y, at)>>),
          fallback |-> TRUE]

\* The try block: "returned" with smooth_y, or "raised" (by the library, or
\* by the else branch for a method name that is not supported).
TryMethod(x, y, m, at, raises) ==
    IF m \in SupportedMethods
    THEN IF raises
         THEN Raised(ValueError(<<"raised by scipy">>))
         ELSE Returned(Interpolated(m, x, y, at))
    ELSE Raised(ValueError(UnsupportedMethodMsg(m)))

\* smooth_curve(x_list, y_list, method, num_points), `raises` being whether
\* the library raises in the try block.  Gives the outcome of the call, what
\* the try block did ("none" when it was not reached) and whether the except
\* clause ran.
SmoothCurve(x, y, m, n, raises) ==
    IF TooFewPoints(x)
    THEN [outcome |-> Raised(ValueError(InsufficientPointsMsg)),
          tried |-> "none", fallback |-> FALSE]
    ELSE LET sx == Linspace(MinOf(x), MaxOf(x), n)
         IN  IF sx.status = "raised"
             THEN [outcome |-> sx, tried |-> "none", fallback |-> FALSE]
             ELSE LET t == TryMethod(x, y, m, sx.value, raises)
                  IN  IF t.status = "raised"
                      THEN [tried |-> "raised", error |-> t.error]
                               @@ Fallback(x, y, sx.value)
                      ELSE [outcome |-> Returned(<<sx.value, t.value>>),
                            tried |-> "returned", fallback |-> FALSE]

-----------------------------------------------------------------------------
(* utils/data_processor.py: calculate_statistics.                          *)

\* min(y_list): ValueError on an empty list.
PyMin(y) ==
    IF y = <<>> THEN Raised(ValueError(<<"min() arg is an empty sequence">>))
    ELSE Returned(MinOf(y))

\* max(y_list): ValueError on an empty list.
PyMax(y) ==
    IF y = <<>> THEN Raised(ValueError(<<"max() arg is an empty sequence">>))
    ELSE Returned(MaxOf(y))

\* sum(y_list)
RECURSIVE Sum(_)
Sum(y) == IF y = <<>> THEN RatInt(0) ELSE RatAdd(Head(y), Sum(Tail(y)))

\* sum(y_list) / len(y_list): ZeroDivisionError on an empty list.  The mean is
\* exact here; the code's is rounded to a double.
PyMean(y) ==
    IF Len(y) = 0 THEN Raised([type |-> "ZeroDivisionError", msg |-> <<"division by zero">>])
    ELSE Returned(Rat(Sum(y).n, Sum(y).d * Len(y)))

\* calculate_statistics with a guard that answers an empty list with zeros.
CalculateStatistics_Guarded(y) ==
    IF y = <<>>
    THEN Returned([min |-> RatInt(0), max |-> RatInt(0), mean |-> RatInt(0),
                   count |-> 0])
    ELSE Returned([min |-> PyMin(y).value, max |-> PyMax(y).value,
                   mean |-> PyMean(y).value, count |-> Len(y)])

\* calculate_statistics(y_list): the dict's values are evaluated in the order
\* written, and the first error leaves the function.  The keys are the
\* statistics' names (minimum, maximum, mean, number of points).
CalculateStatistics(y) ==
    IF PyMin(y).status = "raised" THEN PyMin(y)
    ELSE IF PyMax(y).status = "raised" THEN PyMax(y)
    ELSE IF PyMean(y).status = "raised" THEN PyMean(y)
    ELSE Returned([min |-> PyMin(y).value, max |-> PyMax(y).value,
                   mean |-> PyMean(y).value, count |-> Len(y)])

-----------------------------------------------------------------------------
(* The calls of smooth_curve and calculate_statistics.                     *)

\* num_points of the signature and of the window's call.
DefaultNumPoints == 1000

\* The x values and y values the argument lists are made of.
XVals == {RatInt(i) : i \in 0..3}

YVals == {RatInt(-1), RatInt(0), Rat(1, 2)}

SeqsUpTo(S, n) == UNION {[1..k -> S] : k \in 0..n}

\* The y lists handed to smooth_curve: one of each length.
SmoothYLists == {[i \in 1..k |-> RatInt((i * i) % 3)] : k \in 0..MaxLen}

\* Method names: the supported ones, one that differs in case only, one that
\* is another kind of scipy's.
MethodNames == SupportedMethods \cup {"Cubic", "nearest"}

NumPointsValues == {-1, 0, DefaultNumPoints}

InitSmooth ==
    /\ input_text = <<>>
    /\ x_list \in SeqsUpTo(XVals, MaxLen)
    /\ y_list \in SmoothYLists
    /\ method \in MethodNames
    /\ num_points \in NumPointsValues
    /\ outcome = Pending
    /\ last_action = [name |-> "none"]
    /\ GuiInit

CallSmoothCurve ==
    /\ outcome = Pending
    /\ \E raises \in LibraryRaises(method, x_list, y_list) :
           LET r == SmoothCurve(x_list, y_list, method, num_points, raises)
           IN  /\ outcome' = r.outcome
               /\ last_action' = [name |-> "smooth_curve", tried |-> r.tried,
                                  fallback |-> r.fallback]
    /\ UNCHANGED <<input_text, x_list, y_list, method, num_points>>
    /\ UNCHANGED guiVars

NextSmooth == CallSmoothCurve

SpecSmooth == InitSmooth /\ [][NextSmooth]_vars

InitStats ==
    /\ input_text = <<>>
    /\ x_list = <<>>
    /\ y_list \in SeqsUpTo(YVals, MaxLen)
    /\ method = "cubic"
    /\ num_points = DefaultNumPoints
    /\ outcome = Pending
    /\ last_action = [name |-> "none"]
    /\ GuiInit

CallCalculateStatistics ==
    /\ outcome = Pending
    /\ outcome' = CalculateStatistics(y_list)
    /\ last_action' = [name |-> "calculate_statistics"]
    /\ UNCHANGED <<input_text, x_list, y_list, method, num_points>>
    /\ UNCHANGED guiVars

NextStats == CallCalculateStatistics

SpecStats == InitStats /\ [][NextStats]_vars

SmoothDone == last_action.name = "smooth_curve"

\* The curve linear interpolation gives for the call's arguments.
LinearCurve ==
    LET at == Linspace(MinOf(x_list), MaxOf(x_list), num_points).value
    IN  <<at, Interpolated("linear", x_list, y_list, at)>>

\* C1: smooth_curve with 2 or more points (x strictly increasing, as many y as
\* x values, a positive sample count) and a method name that is not one of
\* the four supported fails with the unsupported-method error; it never
\* returns a curve for such a name.
C1_UnsupportedMethodFails ==
    (/\ SmoothDone
     /\ Len(x_list) >= 2
     /\ Len(x_list) = Len(y_list)
     /\ StrictlyIncreasing(x_list)
     /\ num_points > 0
     /\ method \notin SupportedMethods)
        => outcome = Raised(ValueError(UnsupportedMethodMsg(method)))

\* C5: for 2 or more points (as many y as x values) and a supported method,
\* if building or evaluating the chosen interpolator raises, smooth_curve
\* returns the linear interpolation at the same sample points and no error
\* reaches the caller.
C5_FallbackToLinear ==
    (/\ SmoothDone
     /\ Len(x_list) >= 2
     /\ Len(x_list) = Len(y_list)
     /\ method \in SupportedMethods
     /\ last_action.tried = "raised")
        => outcome = Returned(LinearCurve)

\* C5 witness: cubic interpolation of 2 points raised and the linear curve
\* came back.
C5_Witness ==
    /\ SmoothDone
    /\ Len(x_list) = 2
    /\ Len(y_list) = 2
    /\ method = "cubic"
    /\ last_action.tried = "raised"
    /\ outcome = Returned(LinearCurve)

\* C8: smooth_curve with fewer than 2 x values fails with the
\* insufficient-points error whatever the method name, before the method is
\* looked at and without the linear fallback being attempted.
C8_TooFewPointsFirst ==
    (SmoothDone /\ Len(x_list) < 2)
        => /\ outcome = Raised(ValueError(InsufficientPointsMsg))
           /\ last_action.tried = "none"
           /\ ~last_action.fallback

\* C8 witness: one x value and a method name that is not supported.
C8_Witness ==
    /\ SmoothDone
    /\ Len(x_list) = 1
    /\ method \notin SupportedMethods
    /\ outcome = Raised(ValueError(InsufficientPointsMsg))

StatsDone == last_action.name = "calculate_statistics"

\* C9: calculate_statistics of an empty sequence fails with an error and
\* returns no summary record.
C9_EmptyInputFails ==
    (StatsDone /\ y_list = <<>>)
        => outcome.status = "raised" /\ outcome.error.type = "ValueError"

\* C9 witness: the call with the empty sequence was made and raised.
C9_Witness ==
    /\ StatsDone
    /\ y_list = <<>>
    /\ outcome.status = "raised"

-----------------------------------------------------------------------------
(* gui/main_window.py: MainWindow.                                         *)

\* preset_data of load_preset_data: a blank line, a comment line, eleven
\* points of a sine curve, a line of spaces.
PresetData ==
    <<"\n", "#", " ", "u793a", "u4f8b", "u6570", "u636e", "uff1a", "u6b63", "u5f26",
      "u66f2", "u7ebf", "u91c7", "u6837", "u70b9", "\n", "0", ".", "0", " ",
      "0", ".", "0", "\n", "1", ".", "0", " ", "0", ".",
      "8", "4", "1", "\n", "2", ".", "0", " ", "0", ".",
      "9", "0", "9", "\n", "3", ".", "0", " ", "0", ".",
      "1", "4", "1", "\n", "4", ".", "0", " ", "-", "0",
      ".", "7", "5", "7", "\n", "5", ".", "0", " ", "-",
      "0", ".", "9", "5", "9", "\n", "6", ".", "0", " ",
      "-", "0", ".", "2", "7", "9", "\n", "7", ".", "0",
      " ", "0", ".", "6", "5", "7", "\n", "8", ".", "0",
      " ", "0", ".", "9", "8", "9", "\n", "9", ".", "0",
      " ", "0", ".", "4", "1", "2", "\n", "1", "0", ".",
      "0", " ", "-", "0", ".", "5", "4", "4", "\n", " ",
      " ", " ", " ", " ", " ", " ", " ">>

\* The lines the texts typed into the data box are made of.
GuiLinePool ==
    { <<>>,
      <<"1", " ", "2">>,
      <<"2", ",", "1">>,
      <<"a", " ", "1">> }

GuiTexts == TextsOf(GuiLinePool, MaxGuiLines)

\* The items of method_combo.
ComboItems == {"cubic", "quadratic", "linear", "akima"}

Warning(text) == [kind |-> "warning", text |-> text]

Critical(text) == [kind |-> "critical", text |-> text]

Information(text) == [kind |-> "information", text |-> text]

\* f"plotting failed:\n{str(e)}"
PlotFailedMsg(msg) ==
    <<"u7ed8", "u5236", "u5931", "u8d25", "uff1a", "\n">> \o msg

\* "please enter data"
EnterDataMsg == <<"u8bf7", "u8f93", "u5165", "u6570", "u636e">>

\* "please plot the curve first"
PlotFirstMsg == <<"u8bf7", "u5148", "u7ed8", "u5236", "u66f2", "u7ebf">>

InitGui ==
    /\ input_text = <<>>
    /\ x_list = <<>>
    /\ y_list = <<>>
    /\ method = "cubic"
    /\ num_points = DefaultNumPoints
    /\ outcome = Pending
    /\ last_action = [name |-> "none"]
    /\ GuiInit

\* The user edits the text of data_input.
EditData ==
    /\ \E text \in GuiTexts : data_input' = text
    /\ message_box' = None
    /\ last_action' = [name |-> "edit_data"]
    /\ UNCHANGED <<method_combo, x_data, y_data, smooth_x, smooth_y,
                   export_enabled, stats_label>>
    /\ UNCHANGED callVars

\* The user picks an item of method_combo.
SelectMethod ==
    /\ \E m \in ComboItems : method_combo' = m
    /\ message_box' = None
    /\ last_action' = [name |-> "select_method"]
    /\ UNCHANGED <<data_input, x_data, y_data, smooth_x, smooth_y,
                   export_enabled, stats_label>>
    /\ UNCHANGED callVars

\* load_preset_data
LoadPresetData ==
    /\ data_input' = PresetData
    /\ message_box' = None
    /\ last_action' = [name |-> "load_preset_data"]
    /\ UNCHANGED <<method_combo, x_data, y_data, smooth_x, smooth_y,
                   export_enabled, stats_label>>
    /\ UNCHANGED callVars

\* The end of a plot_curve that leaves through `return` or the except clause
\* at a point where the listed attributes keep their values.
PlotStops(branch, box) ==
    /\ message_box' = box
    /\ last_action' = [name |-> "plot_curve", branch |-> branch]

\* plot_curve from the parsed points on: statistics, smooth_curve, drawing,
\* setEnabled(True).
PlotPoints(xs, ys) ==
    /\ x_data' = xs
    /\ y_data' = ys
    /\ \E stats \in {CalculateStatistics(ys)} :
           IF stats.status = "raised"
           THEN /\ PlotStops("statistics failed",
                             Critical(PlotFailedMsg(stats.error.msg)))
                /\ UNCHANGED <<stats_label, smooth_x, smooth_y, export_enabled>>
           ELSE /\ stats_label' = stats.value
                /\ \E raises \in LibraryRaises(method_combo, xs, ys),
                      drawn \in BOOLEAN :
                       \E curve \in {SmoothCurve(xs, ys, method_combo,
                                         DefaultNumPoints, raises).outcome} :
                           IF curve.status = "raised"
                           THEN /\ PlotStops("smoothing failed",
                                       Critical(PlotFailedMsg(curve.error.msg)))
                                /\ UNCHANGED <<smooth_x, smooth_y, export_enabled>>
                           ELSE /\ smooth_x' = curve.value[1]
                                /\ smooth_y' = curve.value[2]
                                /\ IF drawn
                                   THEN /\ export_enabled' = TRUE
                                        /\ PlotStops("plotted", None)
                                   ELSE /\ UNCHANGED export_enabled
                                        /\ PlotStops("drawing failed",
                                               Critical(PlotFailedMsg(
                                                   <<"raised by matplotlib">>)))

\* plot_curve, the whole handler.  `drawn` is whether the matplotlib calls
\* between smooth_curve and setEnabled(True) went through.
PlotCurve ==
    /\ UNCHANGED <<data_input, method_combo>>
    /\ UNCHANGED callVars
    /\ IF Strip(data_input) = <<>>
       THEN /\ PlotStops("no input", Warning(EnterDataMsg))
            /\ UNCHANGED <<x_data, y_data, stats_label, smooth_x, smooth_y,
                           export_enabled>>
       ELSE \E parsed \in {ParseInputData(data_input)} :
                IF parsed.status = "raised"
                THEN /\ PlotStops("parse failed",
                                  Critical(PlotFailedMsg(parsed.error.msg)))
                     /\ UNCHANGED <<x_data, y_data, stats_label, smooth_x,
                                    smooth_y, export_enabled>>
                ELSE \E xs \in {parsed.value[1]}, ys \in {parsed.value[2]} :
                         PlotPoints(xs, ys)

\* export_image, the whole handler, run by a click on export_btn, which takes
\* clicks only while it is enabled.  `path` is what the file dialog returned,
\* `saved` whether savefig went through.
ExportImage ==
    /\ export_enabled
    /\ UNCHANGED <<data_input, method_combo, x_data, y_data, smooth_x, smooth_y,
                   export_enabled, stats_label>>
    /\ UNCHANGED callVars
    /\ IF smooth_x = None \/ smooth_y = None
       THEN /\ message_box' = Warning(PlotFirstMsg)
            /\ last_action' = [name |-> "export_image", branch |-> "plot first"]
       ELSE \E path \in {<<>>, <<"a", ".", "p", "n", "g">>}, saved \in BOOLEAN :
                IF path = <<>>
                THEN /\ message_box' = None
                     /\ last_action' = [name |-> "export_image", branch |-> "cancelled"]
                ELSE IF saved
                THEN /\ message_box' = Information(path)
                     /\ last_action' = [name |-> "export_image", branch |-> "saved"]
                ELSE /\ message_box' = Critical(<<"raised by matplotlib">>)
                     /\ last_action' = [name |-> "export_image", branch |-> "save failed"]

NextGui ==
    \/ EditData
    \/ SelectMethod
    \/ LoadPresetData
    \/ PlotCurve
    \/ ExportImage

SpecGui == InitGui /\ [][NextGui]_vars

CurveStored == smooth_x # None /\ smooth_y # None

PlotParseFailed ==
    last_action = [name |-> "plot_curve", branch |-> "parse failed"]

\* C10: the export button is enabled only if a smoothed curve is stored, so
\* export_image run from the enabled button never takes the "plot first"
\* branch; and a plot_curve that fails in parsing leaves x_data, y_data,
\* smooth_x, smooth_y and the button's enabled state as they were.
C10_ExportNeedsCurve ==
    /\ [](export_enabled => CurveStored)
    /\ [](last_action # [name |-> "export_image", branch |-> "plot first"])
    /\ [][PlotParseFailed' =>
              UNCHANGED <<x_data, y_data, smooth_x, smooth_y, export_enabled>>]_vars

\* C10 witness: with a curve stored and the button enabled, a plot_curve of a
\* text that does not parse has just failed.
C10_Witness ==
    /\ PlotParseFailed
    /\ export_enabled
    /\ CurveStored
    /\ x_data # <<>>

====
